---- MODULE Spec2Model ----
(***************************************************************************)
(* The lock-free stack of src/src/stack.rs as a state machine.             *)
(*                                                                         *)
(* The heap is a pool of nodes (inner, next); each Stack is one atomic     *)
(* head slot.  Every atomic access of the source (a SeqCst load, store or  *)
(* compare-and-swap) is one step of the thread that performs it, so the    *)
(* interleavings of the model are the interleavings of those accesses.     *)
(* A call is entered by an action named after the method (Push, Pop, ...)  *)
(* and the statements of its body are the actions that follow it.          *)
(***************************************************************************)
EXTENDS Integers, Sequences, FiniteSets, TLC

\* ------------------------------------------------------------------ bounds
\* the threads that share a stack
NumThreads == 2
\* the nodes the threads of a concurrent scenario may allocate between them
MaxAlloc == 3
\* the values are 1..MaxVal
MaxVal == 2
\* the longest vector given to from_vec and node_from_frag_vec
MaxLen == 2

Threads == 1..NumThreads
MaxNodes == IF MaxAlloc > 2 * MaxLen THEN MaxAlloc ELSE 2 * MaxLen
Nodes == 1..MaxNodes
Values == 1..MaxVal
Stacks == {"s1", "s2"}

\* the null pointer (Atomic::null(), ptr::null())
Null == 0
\* Option::None where a T is expected
NoVal == 0
Ptr == Nodes \cup {Null}

VARIABLES
    head,      \* head[s]: Stack.head of stack s
    inner,     \* inner[n]: Node.inner of node n (NoVal while n is not allocated)
    next,      \* next[n]: Node.next of node n
    nalloc,    \* number of nodes allocated so far; the nodes are 1..nalloc
    retired,   \* the nodes handed to the reclamation substrate (Guard::unlinked)
    freed,     \* the nodes that have been destroyed (their Owned was dropped)
    pc,        \* pc[t]: the statement thread t is at
    caller,    \* caller[t]: the function whose loop called the running push / pop
    self,      \* self[t]: the stack the running method was called on
    node,      \* node[t]: local `node` of push / cap / pop
    hd,        \* hd[t]: local `head` of push / pop / len
    nxt,       \* nxt[t]: local `next` of pop, local `last` of node_from_frag_vec
    old,       \* old[t]: parameter `old` of cap
    res,       \* res[t]: what the compare-and-swap of cap observed in head
    todo,      \* todo[t]: the items the loop of from_vec / node_from_frag_vec has left
    vec,       \* vec[t]: local `res` of pop_all
    len,       \* len[t]: local `len` of len
    iterInner, \* iterInner[t]: StackIter.inner of the iterator thread t holds
    ret,       \* ret[t]: what the last call of thread t returned
    pusher,    \* pusher[n]: the thread that allocated node n (history)
    everHead,  \* the nodes that some head slot has held (history)
    everReach, \* the nodes that have been reachable from some head (history)
    abs,       \* abs[s]: the sequential stack that the successful swaps of the head of
               \* s make, one after the other, top first (history)
    stale,     \* stale[t]: another thread has swapped the head that thread t read
               \* since t read it (history)
    retried,   \* retried[t]: a compare-and-swap of the running push / pop of thread t
               \* has failed (history)
    got,       \* got[t]: node and value of every pop of thread t that succeeded (history)
    snap,      \* snap[t]: the chain from head when thread t took its iterator (history)
    yielded,   \* yielded[t]: the nodes the iterator of thread t has yielded (history)
    input,     \* the vector the scenario gave to from_vec (scenario)
    phase      \* the stage of the scenario being run (scenario)

vars == <<head, inner, next, nalloc, retired, freed, pc, caller, self, node, hd, nxt,
          old, res, todo, vec, len, iterInner, ret, pusher, everHead, everReach, abs,
          stale, retried, got, snap, yielded, input, phase>>

heap == <<inner, next, nalloc, pusher, retired, freed>>
locals == <<node, hd, nxt, old, res, todo, vec>>
iters == <<len, iterInner, snap, yielded>>
swaps == <<everHead, everReach, stale>>
hist == <<everHead, everReach, abs, stale, retried, got>>
kept == <<everHead, everReach, abs, retried, got>>
scen == <<input, phase>>

NoRet == [op |-> "none", ok |-> FALSE, val |-> NoVal]

\* the scenarios that read the history of the pushes and the pops keep it
Recording == phase \notin {"free", "iter", "live"}

\* --------------------------------------------------------------- helpers
RECURSIVE ChainFrom(_, _)
\* the nodes reached from p by following next, at most k of them
ChainFrom(p, k) ==
    IF p = Null \/ k = 0 THEN <<>> ELSE <<p>> \o ChainFrom(next[p], k - 1)

Chain(p) == ChainFrom(p, MaxNodes + 1)

\* the values a traversal from p meets, top first
ChainVals(p) == [i \in 1..Len(Chain(p)) |-> inner[Chain(p)[i]]]

\* the nodes of the chain from p
ChainSet(p) == {Chain(p)[i] : i \in 1..Len(Chain(p))}

\* a sequential stack with its top taken off
Rest(q) == IF q = <<>> THEN <<>> ELSE Tail(q)

Reverse(s) == [i \in 1..Len(s) |-> s[Len(s) + 1 - i]]

\* the multiset of the elements of a sequence
BagOf(s) ==
    [v \in {s[i] : i \in 1..Len(s)} |-> Cardinality({i \in 1..Len(s) : s[i] = v})]

\* the vectors of at most n values
Vecs(n) == UNION {[1..k -> Values] : k \in 0..n}

\* a thread at one of these statements has loaded head and has its
\* compare-and-swap still to do
ReadPcs == {"push_cas", "pop_next", "pop_cas"}

\* the compare-and-swap (or store) of thread t has put p in the head of stack s
Swapped(t, s, p) ==
    /\ everHead' = everHead \cup ({p} \ {Null})
    /\ everReach' = everReach \cup ChainSet(p)
    /\ stale' = [u \in Threads |->
                    IF u = t THEN stale[t] /\ pc[t] \in ReadPcs
                    ELSE IF self[u] = s /\ pc[u] \in ReadPcs THEN TRUE ELSE stale[u]]

\* thread t loads the head it will compare with
Fresh(t) == stale' = [stale EXCEPT ![t] = FALSE]

\* the scenarios that read the history of the retries keep it
Retrying == phase = "live"

\* thread t enters push or pop
Enter(t) == retried' = [retried EXCEPT ![t] = FALSE]

\* the compare-and-swap of thread t has failed and its loop goes round again
Retry(t) == retried' = IF Retrying THEN [retried EXCEPT ![t] = TRUE] ELSE retried

\* ------------------------------------------------------------------ Init
\* Stack::default(): every stack starts with a null head; no node exists
Start(ph) ==
    /\ head = [s \in Stacks |-> Null]
    /\ inner = [n \in Nodes |-> NoVal]
    /\ next = [n \in Nodes |-> Null]
    /\ nalloc = 0
    /\ retired = {}
    /\ freed = {}
    /\ pc = [t \in Threads |-> "idle"]
    /\ caller = [t \in Threads |-> "none"]
    /\ self = [t \in Threads |-> "s1"]
    /\ node = [t \in Threads |-> Null]
    /\ hd = [t \in Threads |-> Null]
    /\ nxt = [t \in Threads |-> Null]
    /\ old = [t \in Threads |-> Null]
    /\ res = [t \in Threads |-> Null]
    /\ todo = [t \in Threads |-> <<>>]
    /\ vec = [t \in Threads |-> <<>>]
    /\ len = [t \in Threads |-> 0]
    /\ iterInner = [t \in Threads |-> Null]
    /\ ret = [t \in Threads |-> NoRet]
    /\ pusher = [n \in Nodes |-> 0]
    /\ everHead = {}
    /\ everReach = {}
    /\ abs = [s \in Stacks |-> <<>>]
    /\ stale = [t \in Threads |-> FALSE]
    /\ retried = [t \in Threads |-> FALSE]
    /\ got = [t \in Threads |-> <<>>]
    /\ snap = [t \in Threads |-> <<>>]
    /\ yielded = [t \in Threads |-> <<>>]
    /\ input = <<>>
    /\ phase = ph

\* ------------------------------------------------------------------ push
\* Node { inner: v, next: nx } is allocated by thread t; it is node nalloc + 1
NewNode(t, v, nx) ==
    /\ nalloc < MaxNodes
    /\ nalloc' = nalloc + 1
    /\ inner' = [inner EXCEPT ![nalloc + 1] = v]
    /\ next' = [next EXCEPT ![nalloc + 1] = nx]
    /\ pusher' = IF Recording THEN [pusher EXCEPT ![nalloc + 1] = t] ELSE pusher
    /\ UNCHANGED retired

\* let node = Owned::new(Node { inner: v, next: Atomic::null() });
AllocNode(t, v) ==
    /\ NewNode(t, v, Null)
    /\ node' = [node EXCEPT ![t] = nalloc + 1]

\* push is entered on stack s with value v: the node is allocated, the guard pinned
CallPush(t, s, v) ==
    /\ AllocNode(t, v)
    /\ self' = [self EXCEPT ![t] = s]
    /\ pc' = [pc EXCEPT ![t] = "push_load"]
    /\ UNCHANGED freed

\* where push returns to: the loop of from_vec, or the thread's own code
PushReturn(t) ==
    IF caller[t] = "from_vec"
    THEN /\ pc' = [pc EXCEPT ![t] = "from_vec_loop"]
         /\ UNCHANGED ret
    ELSE /\ pc' = [pc EXCEPT ![t] = "idle"]
         /\ ret' = [ret EXCEPT ![t] = [op |-> "push", ok |-> TRUE, val |-> node[t]]]

Push(t, s, v) ==
    /\ pc[t] = "idle"
    /\ CallPush(t, s, v)
    /\ ret' = [ret EXCEPT ![t] = NoRet]
    /\ Enter(t)
    /\ Fresh(t)
    /\ UNCHANGED <<head, caller, hd, nxt, old, res, todo, vec, iters, everHead, everReach, abs, got>>

\* PushLoad with the store into node.next left out
PushLoadNoLink(t) ==
    /\ pc[t] = "push_load"
    /\ hd' = [hd EXCEPT ![t] = head[self[t]]]
    /\ Fresh(t)
    /\ pc' = [pc EXCEPT ![t] = "push_cas"]
    /\ UNCHANGED <<head, heap, caller, self, node, nxt, old, res, todo, vec, iters, ret,
                   everHead, everReach, abs, retried, got, input, phase>>

\* PushLoad storing into the next of the node it found in head as well
PushLoadRelink(t) ==
    /\ pc[t] = "push_load"
    /\ hd' = [hd EXCEPT ![t] = head[self[t]]]
    /\ Fresh(t)
    /\ next' = [n \in Nodes |->
                   IF n = node[t] THEN head[self[t]]
                   ELSE IF n = head[self[t]] THEN Null
                   ELSE next[n]]
    /\ pc' = [pc EXCEPT ![t] = "push_cas"]
    /\ UNCHANGED <<head, inner, nalloc, pusher, retired, freed, caller, self, node, nxt,
                   old, res, todo, vec, iters, ret, everHead, everReach, abs, retried, got,
                   input, phase>>

\* let head = self.head(); node.next.store_shared(head, SeqCst);
\* (the load of head is the step; the node it is stored in is still private)
PushLoad(t) ==
    /\ pc[t] = "push_load"
    /\ hd' = [hd EXCEPT ![t] = head[self[t]]]
    /\ Fresh(t)
    /\ next' = [next EXCEPT ![node[t]] = head[self[t]]]
    /\ pc' = [pc EXCEPT ![t] = "push_cas"]
    /\ UNCHANGED <<head, inner, nalloc, pusher, retired, freed, caller, self, node, nxt,
                   old, res, todo, vec, iters, ret, everHead, everReach, abs, retried, got,
                   input, phase>>

\* PushCas with a plain store in place of the compare-and-swap
PushCasBlind(t) ==
    /\ pc[t] = "push_cas"
    /\ head' = [head EXCEPT ![self[t]] = node[t]]
    /\ Swapped(t, self[t], node[t])
    /\ abs' = [abs EXCEPT ![self[t]] = <<node[t]>> \o @]
    /\ UNCHANGED retried
    /\ PushReturn(t)
    /\ node' = [node EXCEPT ![t] = Null]
    /\ hd' = [hd EXCEPT ![t] = Null]
    /\ UNCHANGED <<heap, caller, self, nxt, old, res, todo, vec, iters, got, input, phase>>

\* PushCas returning when its compare-and-swap has failed, the node not installed
PushCasGiveUp(t) ==
    /\ pc[t] = "push_cas"
    /\ IF head[self[t]] = hd[t]
       THEN /\ head' = [head EXCEPT ![self[t]] = node[t]]
            /\ Swapped(t, self[t], node[t])
            /\ abs' = [abs EXCEPT ![self[t]] = <<node[t]>> \o @]
       ELSE UNCHANGED <<head, swaps, abs>>
    /\ UNCHANGED retried
    /\ PushReturn(t)
    /\ node' = [node EXCEPT ![t] = Null]
    /\ hd' = [hd EXCEPT ![t] = Null]
    /\ UNCHANGED <<heap, caller, self, nxt, old, res, todo, vec, iters, got, input, phase>>

\* PushCas going round the loop again after its compare-and-swap has succeeded
PushCasAgain(t) ==
    /\ pc[t] = "push_cas"
    /\ IF head[self[t]] = hd[t]
       THEN /\ head' = [head EXCEPT ![self[t]] = node[t]]
            /\ Swapped(t, self[t], node[t])
            /\ abs' = [abs EXCEPT ![self[t]] = <<node[t]>> \o @]
            /\ UNCHANGED retried
       ELSE /\ Retry(t)
            /\ UNCHANGED <<head, swaps, abs>>
    /\ pc' = [pc EXCEPT ![t] = "push_load"]
    /\ UNCHANGED <<heap, caller, self, node, hd, nxt, old, res, todo, vec, iters, ret, got,
                   input, phase>>

\* if self.head.cas(head, Some(node), SeqCst).is_ok() { return; }  (else loop)
PushCas(t) ==
    /\ pc[t] = "push_cas"
    /\ IF head[self[t]] = hd[t]
       THEN /\ head' = [head EXCEPT ![self[t]] = node[t]]
            /\ Swapped(t, self[t], node[t])
            /\ abs' = [abs EXCEPT ![self[t]] = <<node[t]>> \o @]
            /\ UNCHANGED retried
            /\ PushReturn(t)
            /\ node' = [node EXCEPT ![t] = Null]
            /\ hd' = [hd EXCEPT ![t] = Null]
       ELSE /\ pc' = [pc EXCEPT ![t] = "push_load"]
            /\ Retry(t)
            /\ UNCHANGED <<head, swaps, abs, ret, node, hd>>
    /\ UNCHANGED <<heap, caller, self, nxt, old, res, todo, vec, iters, got, input, phase>>

\* ------------------------------------------------------------------- pop
\* where pop returns to: the `while let` of pop_all, or the thread's own code
PopReturn(t, some, v) ==
    IF caller[t] = "pop_all"
    THEN IF some
         THEN \* res.push(elem); and the next self.pop() is entered
              /\ vec' = [vec EXCEPT ![t] = Append(@, v)]
              /\ pc' = [pc EXCEPT ![t] = "pop_load"]
              /\ UNCHANGED <<caller, ret>>
         ELSE \* pop_all returns res
              /\ ret' = [ret EXCEPT ![t] = [op |-> "pop_all", ok |-> TRUE, val |-> vec[t]]]
              /\ vec' = [vec EXCEPT ![t] = <<>>]
              /\ caller' = [caller EXCEPT ![t] = "none"]
              /\ pc' = [pc EXCEPT ![t] = "idle"]
    ELSE /\ ret' = [ret EXCEPT ![t] = [op |-> "pop", ok |-> some, val |-> v]]
         /\ pc' = [pc EXCEPT ![t] = "idle"]
         /\ UNCHANGED <<caller, vec>>

\* pop is entered on stack s: let guard = pin();
Pop(t, s) ==
    /\ pc[t] = "idle"
    /\ self' = [self EXCEPT ![t] = s]
    /\ pc' = [pc EXCEPT ![t] = "pop_load"]
    /\ ret' = [ret EXCEPT ![t] = NoRet]
    /\ Enter(t)
    /\ Fresh(t)
    /\ UNCHANGED <<head, heap, caller, locals, iters, everHead, everReach, abs, got>>

\* PopLoad with the is_none test left out
PopLoadNoCheck(t) ==
    /\ pc[t] = "pop_load"
    /\ hd' = [hd EXCEPT ![t] = head[self[t]]]
    /\ Fresh(t)
    /\ pc' = [pc EXCEPT ![t] = "pop_next"]
    /\ UNCHANGED <<head, heap, caller, self, node, nxt, old, res, todo, vec, iters, ret,
                   everHead, everReach, abs, retried, got, input, phase>>

\* let head = self.head(); if head.is_none() { return None; }
PopLoad(t) ==
    /\ pc[t] = "pop_load"
    /\ Fresh(t)
    /\ IF head[self[t]] = Null
       THEN /\ PopReturn(t, FALSE, NoVal)
            /\ UNCHANGED hd
       ELSE /\ hd' = [hd EXCEPT ![t] = head[self[t]]]
            /\ pc' = [pc EXCEPT ![t] = "pop_next"]
            /\ UNCHANGED <<caller, ret, vec>>
    /\ UNCHANGED <<head, heap, self, node, nxt, old, res, todo, iters, everHead,
                   everReach, abs, retried, got, input, phase>>

\* let node = head.unwrap(); let next = node.next.load(SeqCst, &guard);
\* (unwrap panics on None)
PopNext(t) ==
    /\ pc[t] = "pop_next"
    /\ IF hd[t] = Null
       THEN /\ pc' = [pc EXCEPT ![t] = "panic"]
            /\ UNCHANGED <<node, nxt>>
       ELSE /\ node' = [node EXCEPT ![t] = hd[t]]
            /\ nxt' = [nxt EXCEPT ![t] = next[hd[t]]]
            /\ pc' = [pc EXCEPT ![t] = "pop_cas"]
    /\ UNCHANGED <<head, heap, caller, self, hd, old, res, todo, vec, iters, ret, hist,
                   input, phase>>

\* what a pop that has detached node n adds to the history of thread t
Detached(t, n) ==
    /\ got' = IF Recording
              THEN [got EXCEPT ![t] = Append(@, [n |-> n, v |-> inner[n]])]
              ELSE got
    /\ UNCHANGED retried

\* PopCas with a plain store in place of the compare-and-swap
PopCasBlind(t) ==
    /\ pc[t] = "pop_cas"
    /\ head' = [head EXCEPT ![self[t]] = nxt[t]]
    /\ Swapped(t, self[t], nxt[t])
    /\ abs' = [abs EXCEPT ![self[t]] = Rest(@)]
    /\ Detached(t, node[t])
    /\ PopReturn(t, TRUE, inner[node[t]])
    /\ node' = [node EXCEPT ![t] = Null]
    /\ hd' = [hd EXCEPT ![t] = Null]
    /\ nxt' = [nxt EXCEPT ![t] = Null]
    /\ UNCHANGED <<heap, self, old, res, todo, iters, input, phase>>

\* PopCas dropping the node it has detached at once (as a Box would be)
PopCasDrop(t) ==
    /\ pc[t] = "pop_cas"
    /\ IF head[self[t]] = hd[t]
       THEN /\ head' = [head EXCEPT ![self[t]] = nxt[t]]
            /\ Swapped(t, self[t], nxt[t])
            /\ abs' = [abs EXCEPT ![self[t]] = Rest(@)]
            /\ Detached(t, node[t])
            /\ freed' = freed \cup {node[t]}
            /\ PopReturn(t, TRUE, inner[node[t]])
       ELSE /\ pc' = [pc EXCEPT ![t] = "pop_load"]
            /\ Retry(t)
            /\ UNCHANGED <<head, swaps, abs, got, freed, caller, ret, vec>>
    /\ node' = [node EXCEPT ![t] = Null]
    /\ hd' = [hd EXCEPT ![t] = Null]
    /\ nxt' = [nxt EXCEPT ![t] = Null]
    /\ UNCHANGED <<inner, next, nalloc, pusher, retired, self, old, res, todo, iters,
                   input, phase>>

\* PopCas whose compare-and-swap may fail although head is what was read
PopCasSpurious(t) ==
    /\ pc[t] = "pop_cas"
    /\ \E fails \in BOOLEAN :
          IF head[self[t]] = hd[t] /\ ~fails
          THEN /\ head' = [head EXCEPT ![self[t]] = nxt[t]]
               /\ Swapped(t, self[t], nxt[t])
               /\ abs' = [abs EXCEPT ![self[t]] = Rest(@)]
               /\ Detached(t, node[t])
               /\ PopReturn(t, TRUE, inner[node[t]])
          ELSE /\ pc' = [pc EXCEPT ![t] = "pop_load"]
               /\ Retry(t)
               /\ UNCHANGED <<head, swaps, abs, got, caller, ret, vec>>
    /\ node' = [node EXCEPT ![t] = Null]
    /\ hd' = [hd EXCEPT ![t] = Null]
    /\ nxt' = [nxt EXCEPT ![t] = Null]
    /\ UNCHANGED <<heap, self, old, res, todo, iters, input, phase>>

\* PopCas comparing with the head it finds, not with the head it read: the next
\* it read is installed whatever head has become
PopCasAba(t) ==
    /\ pc[t] = "pop_cas"
    /\ IF head[self[t]] # Null
       THEN /\ head' = [head EXCEPT ![self[t]] = nxt[t]]
            /\ Swapped(t, self[t], nxt[t])
            /\ abs' = [abs EXCEPT ![self[t]] = Rest(@)]
            /\ Detached(t, head[self[t]])
            /\ PopReturn(t, TRUE, inner[head[self[t]]])
       ELSE /\ pc' = [pc EXCEPT ![t] = "pop_load"]
            /\ Retry(t)
            /\ UNCHANGED <<head, swaps, abs, got, caller, ret, vec>>
    /\ node' = [node EXCEPT ![t] = Null]
    /\ hd' = [hd EXCEPT ![t] = Null]
    /\ nxt' = [nxt EXCEPT ![t] = Null]
    /\ UNCHANGED <<heap, self, old, res, todo, iters, input, phase>>

\* if self.head.cas_shared(head, next, SeqCst) { return Some(node.inner); }
\* else { mem::forget(node); }  (and loop)
\* (node is a Shared: nothing is handed to the guard, and forgetting or dropping
\* it destroys nothing)
PopCas(t) ==
    /\ pc[t] = "pop_cas"
    /\ IF head[self[t]] = hd[t]
       THEN /\ head' = [head EXCEPT ![self[t]] = nxt[t]]
            /\ Swapped(t, self[t], nxt[t])
            /\ abs' = [abs EXCEPT ![self[t]] = Rest(@)]
            /\ Detached(t, node[t])
            /\ PopReturn(t, TRUE, inner[node[t]])
       ELSE /\ pc' = [pc EXCEPT ![t] = "pop_load"]
            /\ Retry(t)
            /\ UNCHANGED <<head, swaps, abs, got, caller, ret, vec>>
    /\ node' = [node EXCEPT ![t] = Null]
    /\ hd' = [hd EXCEPT ![t] = Null]
    /\ nxt' = [nxt EXCEPT ![t] = Null]
    /\ UNCHANGED <<heap, self, old, res, todo, iters, input, phase>>

\* pop_all is entered on stack s: let mut res = vec![]; and the first self.pop()
PopAll(t, s) ==
    /\ pc[t] = "idle"
    /\ self' = [self EXCEPT ![t] = s]
    /\ caller' = [caller EXCEPT ![t] = "pop_all"]
    /\ vec' = [vec EXCEPT ![t] = <<>>]
    /\ pc' = [pc EXCEPT ![t] = "pop_load"]
    /\ ret' = [ret EXCEPT ![t] = NoRet]
    /\ Fresh(t)
    /\ UNCHANGED <<head, heap, node, hd, nxt, old, res, todo, iters, kept>>

\* -------------------------------------------------------------- from_vec
\* FromVec with the vector taken front to back, .rev() left out
FromVecNoRev(t, s, v) ==
    /\ pc[t] = "idle"
    /\ head' = [head EXCEPT ![s] = Null]
    /\ abs' = [abs EXCEPT ![s] = <<>>]
    /\ self' = [self EXCEPT ![t] = s]
    /\ todo' = [todo EXCEPT ![t] = v]
    /\ caller' = [caller EXCEPT ![t] = "from_vec"]
    /\ pc' = [pc EXCEPT ![t] = "from_vec_loop"]
    /\ ret' = [ret EXCEPT ![t] = NoRet]
    /\ Fresh(t)
    /\ UNCHANGED <<heap, node, hd, nxt, old, res, vec, iters, everHead, everReach, retried, got>>

\* from_vec is entered with vector v: let stack = Stack::default(); and the
\* iterator from.into_iter().rev() is made
FromVec(t, s, v) ==
    /\ pc[t] = "idle"
    /\ head' = [head EXCEPT ![s] = Null]
    /\ abs' = [abs EXCEPT ![s] = <<>>]
    /\ self' = [self EXCEPT ![t] = s]
    /\ todo' = [todo EXCEPT ![t] = Reverse(v)]
    /\ caller' = [caller EXCEPT ![t] = "from_vec"]
    /\ pc' = [pc EXCEPT ![t] = "from_vec_loop"]
    /\ ret' = [ret EXCEPT ![t] = NoRet]
    /\ Fresh(t)
    /\ UNCHANGED <<heap, node, hd, nxt, old, res, vec, iters, everHead, everReach, retried, got>>

\* for item in from.into_iter().rev() { stack.push(item); }  stack
FromVecLoop(t) ==
    /\ pc[t] = "from_vec_loop"
    /\ IF todo[t] = <<>>
       THEN /\ ret' = [ret EXCEPT ![t] = [op |-> "from_vec", ok |-> TRUE, val |-> self[t]]]
            /\ caller' = [caller EXCEPT ![t] = "none"]
            /\ pc' = [pc EXCEPT ![t] = "idle"]
            /\ UNCHANGED <<heap, node, self, todo>>
       ELSE /\ CallPush(t, self[t], Head(todo[t]))
            /\ todo' = [todo EXCEPT ![t] = Tail(@)]
            /\ UNCHANGED <<ret, caller>>
    /\ UNCHANGED <<head, hd, nxt, old, res, vec, iters, hist, input, phase>>

\* ---------------------------------------------------- node_from_frag_vec
\* NodeFromFragVec with the vector taken front to back, .rev() left out
NodeFromFragVecNoRev(t, v) ==
    /\ pc[t] = "idle"
    /\ nxt' = [nxt EXCEPT ![t] = Null]
    /\ todo' = [todo EXCEPT ![t] = v]
    /\ pc' = [pc EXCEPT ![t] = "frag_loop"]
    /\ ret' = [ret EXCEPT ![t] = NoRet]
    /\ Fresh(t)
    /\ UNCHANGED <<head, heap, caller, self, node, hd, old, res, vec, iters, kept>>

\* node_from_frag_vec is entered with vector v: let mut last = ptr::null();
NodeFromFragVec(t, v) ==
    /\ pc[t] = "idle"
    /\ nxt' = [nxt EXCEPT ![t] = Null]
    /\ todo' = [todo EXCEPT ![t] = Reverse(v)]
    /\ pc' = [pc EXCEPT ![t] = "frag_loop"]
    /\ ret' = [ret EXCEPT ![t] = NoRet]
    /\ Fresh(t)
    /\ UNCHANGED <<head, heap, caller, self, node, hd, old, res, vec, iters, kept>>

\* for item in from.into_iter().rev() {
\*     let node = raw(Node { inner: item, next: last }); last = node; }  last
FragLoop(t) ==
    /\ pc[t] = "frag_loop"
    /\ IF todo[t] = <<>>
       THEN /\ ret' = [ret EXCEPT ![t] =
                          [op |-> "node_from_frag_vec", ok |-> TRUE, val |-> nxt[t]]]
            /\ nxt' = [nxt EXCEPT ![t] = Null]
            /\ pc' = [pc EXCEPT ![t] = "idle"]
            /\ UNCHANGED <<heap, todo>>
       ELSE /\ NewNode(t, Head(todo[t]), nxt[t])
            /\ nxt' = [nxt EXCEPT ![t] = nalloc + 1]
            /\ todo' = [todo EXCEPT ![t] = Tail(@)]
            /\ UNCHANGED <<ret, pc, freed>>
    /\ UNCHANGED <<head, caller, self, node, hd, old, res, vec, iters, hist, input,
                   phase>>

\* -------------------------------------------------------------- from_raw
\* let head = Atomic::null(); head.store_shared(Some(from), SeqCst); Stack { head }
FromRaw(t, s, from) ==
    /\ pc[t] = "idle"
    /\ head' = [head EXCEPT ![s] = from]
    /\ Swapped(t, s, from)
    /\ abs' = [abs EXCEPT ![s] = Chain(from)]
    /\ self' = [self EXCEPT ![t] = s]
    /\ ret' = [ret EXCEPT ![t] = [op |-> "from_raw", ok |-> TRUE, val |-> s]]
    /\ UNCHANGED <<heap, pc, caller, locals, iters, retried, got>>

\* ------------------------------------------------------------- test_fail
\* What test_fail() may answer.  The function is imported from the crate root
\* (use {raw, test_fail};): the fault-injection hook by which a test forces a
\* compare-and-swap to be reported as lost.
TestFail == BOOLEAN

\* ------------------------------------------------------------------- cap
\* cap is entered on stack s with expected head o and value v:
\* let node = Owned::new(Node { inner: new, next: Atomic::null() });
\* let guard = pin(); node.next.store_shared(old, SeqCst);
\* (all of it on a node that is still private)
Cap(t, s, o, v) ==
    /\ pc[t] = "idle"
    /\ NewNode(t, v, o)
    /\ node' = [node EXCEPT ![t] = nalloc + 1]
    /\ self' = [self EXCEPT ![t] = s]
    /\ old' = [old EXCEPT ![t] = o]
    /\ pc' = [pc EXCEPT ![t] = "cap_cas"]
    /\ ret' = [ret EXCEPT ![t] = NoRet]
    /\ Fresh(t)
    /\ UNCHANGED <<head, freed, caller, hd, nxt, res, todo, vec, iters, kept>>

\* self.head.cas_and_ref(old, Some(node), SeqCst);
\* if old == res && !test_fail() { Ok(node) } else { ... }
\* (`res` is what the compare-and-swap found in head, as it is in cas; when the
\* swap fails cas_and_ref hands the Owned back in Err(new), the statement
\* discards it, and the node, which no other thread has seen, is dropped)
CapCas(t) ==
    /\ pc[t] = "cap_cas"
    /\ IF head[self[t]] = old[t]
       THEN /\ head' = [head EXCEPT ![self[t]] = node[t]]
            /\ Swapped(t, self[t], node[t])
            /\ abs' = [abs EXCEPT ![self[t]] = <<node[t]>> \o @]
            /\ UNCHANGED freed
       ELSE /\ freed' = freed \cup {node[t]}
            /\ UNCHANGED <<head, swaps, abs>>
    /\ \E f \in TestFail :
          IF head[self[t]] = old[t] /\ ~f
          THEN /\ ret' = [ret EXCEPT ![t] = [op |-> "cap", ok |-> TRUE, val |-> node[t]]]
               /\ pc' = [pc EXCEPT ![t] = "idle"]
               /\ node' = [node EXCEPT ![t] = Null]
               /\ old' = [old EXCEPT ![t] = Null]
               /\ UNCHANGED res
          ELSE /\ res' = [res EXCEPT ![t] = head[self[t]]]
               /\ pc' = [pc EXCEPT ![t] = "cap_head"]
               /\ UNCHANGED <<ret, node, old>>
    /\ UNCHANGED <<inner, next, nalloc, pusher, retired, caller, self, hd, nxt, todo, vec,
                   iters, retried, got, input, phase>>

\* else { self.head() }: head is loaded again, and that is what cap returns
CapHead(t) ==
    /\ pc[t] = "cap_head"
    /\ ret' = [ret EXCEPT ![t] = [op |-> "cap", ok |-> FALSE, val |-> head[self[t]]]]
    /\ pc' = [pc EXCEPT ![t] = "idle"]
    /\ node' = [node EXCEPT ![t] = Null]
    /\ old' = [old EXCEPT ![t] = Null]
    /\ res' = [res EXCEPT ![t] = Null]
    /\ UNCHANGED <<head, heap, caller, self, hd, nxt, todo, vec, iters, hist, input,
                   phase>>

\* ------------------------------------------------------------------- cas
\* let res = self.head.compare_and_swap(old, new, SeqCst);
\* if old == res && !test_fail() { Ok(new) } else { Err(res) }
Cas(t, s, o, n) ==
    /\ pc[t] = "idle"
    /\ self' = [self EXCEPT ![t] = s]
    /\ IF head[s] = o
       THEN /\ head' = [head EXCEPT ![s] = n]
            /\ Swapped(t, s, n)
            /\ abs' = [abs EXCEPT ![s] = Chain(n)]
       ELSE UNCHANGED <<head, swaps, abs>>
    /\ \E f \in TestFail :
          ret' = [ret EXCEPT ![t] =
                     IF head[s] = o /\ ~f
                     THEN [op |-> "cas", ok |-> TRUE, val |-> n]
                     ELSE [op |-> "cas", ok |-> FALSE, val |-> head[s]]]
    /\ UNCHANGED <<heap, pc, caller, locals, iters, retried, got>>

\* ---------------------------------------------------------- iter_at_head
\* IterAtHead returning an iterator that is at its end where the source panics
IterAtHeadNoPanic(t, s) ==
    /\ pc[t] = "idle"
    /\ self' = [self EXCEPT ![t] = s]
    /\ ret' = [ret EXCEPT ![t] = [op |-> "iter_at_head", ok |-> TRUE, val |-> head[s]]]
    /\ iterInner' = [iterInner EXCEPT ![t] = head[s]]
    /\ snap' = [snap EXCEPT ![t] = Chain(head[s])]
    /\ yielded' = [yielded EXCEPT ![t] = <<>>]
    /\ Fresh(t)
    /\ UNCHANGED <<head, heap, pc, caller, locals, len, kept>>

\* let head = self.head();
\* if head.is_null() { panic!("iter_at_head returning null head"); }
\* (head, StackIter { inner: head, marker: PhantomData })
\* (the guard that head() pins is dropped when head() returns: the iterator
\* holds a bare pointer and no guard)
IterAtHead(t, s) ==
    /\ pc[t] = "idle"
    /\ self' = [self EXCEPT ![t] = s]
    /\ IF head[s] = Null
       THEN /\ pc' = [pc EXCEPT ![t] = "iter_at_head_panic"]
            /\ ret' = [ret EXCEPT ![t] = NoRet]
            /\ UNCHANGED <<iterInner, snap, yielded>>
       ELSE /\ ret' = [ret EXCEPT ![t] =
                          [op |-> "iter_at_head", ok |-> TRUE, val |-> head[s]]]
            /\ iterInner' = [iterInner EXCEPT ![t] = head[s]]
            /\ snap' = [snap EXCEPT ![t] = Chain(head[s])]
            /\ yielded' = [yielded EXCEPT ![t] = <<>>]
            /\ UNCHANGED pc
    /\ Fresh(t)
    /\ UNCHANGED <<head, heap, caller, locals, len, kept>>

\* thread t holds an iterator that has not returned None
HasIter(t) ==
    \/ ret[t].op = "iter_at_head"
    \/ ret[t].op = "next" /\ ret[t].ok

\* IterNext giving up at a node that is no longer reachable from head
IterNextLive(t) ==
    /\ pc[t] = "idle"
    /\ HasIter(t)
    /\ IF iterInner[t] = Null \/ iterInner[t] \notin ChainSet(head[self[t]])
       THEN /\ ret' = [ret EXCEPT ![t] = [op |-> "next", ok |-> FALSE, val |-> NoVal]]
            /\ UNCHANGED <<iterInner, yielded>>
       ELSE /\ ret' = [ret EXCEPT ![t] =
                          [op |-> "next", ok |-> TRUE, val |-> inner[iterInner[t]]]]
            /\ iterInner' = [iterInner EXCEPT ![t] = next[iterInner[t]]]
            /\ yielded' = [yielded EXCEPT ![t] = Append(@, iterInner[t])]
    /\ Fresh(t)
    /\ UNCHANGED <<head, heap, pc, caller, self, locals, len, snap, kept>>

\* StackIter::next:
\* if self.inner.is_null() { None } else { unsafe {
\*     let ref ret = (*self.inner).inner; self.inner = (*self.inner).next; Some(ret) } }
\* (reading a node that has been destroyed is undefined: any value, any link)
IterNext(t) ==
    /\ pc[t] = "idle"
    /\ HasIter(t)
    /\ IF iterInner[t] = Null
       THEN /\ ret' = [ret EXCEPT ![t] = [op |-> "next", ok |-> FALSE, val |-> NoVal]]
            /\ UNCHANGED <<iterInner, yielded>>
       ELSE /\ \E v \in Values \cup {NoVal} : \E p \in Ptr :
                  /\ iterInner[t] \notin freed => v = inner[iterInner[t]]
                  /\ iterInner[t] \notin freed => p = next[iterInner[t]]
                  /\ ret' = [ret EXCEPT ![t] = [op |-> "next", ok |-> TRUE, val |-> v]]
                  /\ iterInner' = [iterInner EXCEPT ![t] = p]
            /\ yielded' = [yielded EXCEPT ![t] = Append(@, iterInner[t])]
    /\ Fresh(t)
    /\ UNCHANGED <<head, heap, pc, caller, self, locals, len, snap, kept>>

\* ------------------------------------------------------------------- len
\* len is entered on stack s: let mut len = 0; let mut head = self.head();
LenHead(t, s) ==
    /\ pc[t] = "idle"
    /\ self' = [self EXCEPT ![t] = s]
    /\ len' = [len EXCEPT ![t] = 0]
    /\ hd' = [hd EXCEPT ![t] = head[s]]
    /\ pc' = [pc EXCEPT ![t] = "len_loop"]
    /\ ret' = [ret EXCEPT ![t] = NoRet]
    /\ Fresh(t)
    /\ UNCHANGED <<head, heap, caller, node, nxt, old, res, todo, vec, iterInner, snap,
                   yielded, kept>>

\* while !head.is_null() { len += 1; head = unsafe { (*head).next }; }  len
\* (reading a node that has been destroyed is undefined: any link)
LenLoop(t) ==
    /\ pc[t] = "len_loop"
    /\ IF hd[t] = Null
       THEN /\ ret' = [ret EXCEPT ![t] = [op |-> "len", ok |-> TRUE, val |-> len[t]]]
            /\ pc' = [pc EXCEPT ![t] = "idle"]
            /\ len' = [len EXCEPT ![t] = 0]
            /\ UNCHANGED hd
       ELSE /\ len[t] < MaxNodes
            /\ len' = [len EXCEPT ![t] = @ + 1]
            /\ \E p \in Ptr :
                  /\ hd[t] \notin freed => p = next[hd[t]]
                  /\ hd' = [hd EXCEPT ![t] = p]
            /\ UNCHANGED <<ret, pc>>
    /\ UNCHANGED <<head, heap, caller, self, node, nxt, old, res, todo, vec, iterInner,
                   snap, yielded, hist, input, phase>>

\* ------------------------------------------------ pushers, then drainers
\* The stress scenario: the threads push concurrently, are joined, and then
\* drain concurrently until each has seen the stack empty.
SawEmpty(t) ==
    \/ ret[t].op = "pop_all"
    \/ ret[t].op = "pop" /\ ~ret[t].ok

PD_Push(t, v) ==
    /\ phase = "push"
    /\ nalloc < MaxAlloc
    /\ Push(t, "s1", v)
    /\ UNCHANGED scen

\* t.join(): every pusher has returned
PD_Join ==
    /\ phase = "push"
    /\ \A t \in Threads : pc[t] = "idle"
    /\ phase' = "drain"
    /\ UNCHANGED <<head, heap, pc, caller, self, locals, iters, ret, hist, input>>

PD_Pop(t) == phase = "drain" /\ ~SawEmpty(t) /\ Pop(t, "s1") /\ UNCHANGED scen

PD_PopAll(t) == phase = "drain" /\ ~SawEmpty(t) /\ PopAll(t, "s1") /\ UNCHANGED scen

NextPushDrain ==
    \/ \E t \in Threads : \E v \in Values : PD_Push(t, v)
    \/ \E t \in Threads : PushLoad(t)
    \/ \E t \in Threads : PushCas(t)
    \/ PD_Join
    \/ \E t \in Threads : PD_Pop(t)
    \/ \E t \in Threads : PD_PopAll(t)
    \/ \E t \in Threads : PopLoad(t)
    \/ \E t \in Threads : PopNext(t)
    \/ \E t \in Threads : PopCas(t)

InitPushDrain == Start("push")

SpecPushDrain == InitPushDrain /\ [][NextPushDrain]_vars

\* ------------------------------------------------- threads sharing a stack
\* Every thread calls what it likes on the one shared stack.  A thread passes
\* to cap an expected head it can have been given (null, or a node some head
\* held), and to cas the chain its last call built with node_from_frag_vec.
RECURSIVE PendingUpTo(_)
PendingUpTo(k) ==
    IF k = 0 THEN 0
    ELSE PendingUpTo(k - 1) + (IF pc[k] = "frag_loop" THEN Len(todo[k]) ELSE 0)

\* the nodes that the running calls of node_from_frag_vec have yet to allocate
Pending == PendingUpTo(NumThreads)

\* a call that allocates k nodes keeps the scenario within its MaxAlloc nodes
Room(k) == nalloc + Pending + k <= MaxAlloc

F_Push(t, v) == phase = "free" /\ Room(1) /\ Push(t, "s1", v) /\ UNCHANGED scen

F_Pop(t) == phase = "free" /\ Pop(t, "s1") /\ UNCHANGED scen

F_PopAll(t) == phase = "free" /\ PopAll(t, "s1") /\ UNCHANGED scen

F_Cap(t, o, v) ==
    /\ phase = "free"
    /\ Room(1)
    /\ o \in everHead \cup {Null}
    /\ Cap(t, "s1", o, v)
    /\ UNCHANGED scen

F_NodeFromFragVec(t, v) ==
    /\ phase = "free"
    /\ Len(v) > 0
    /\ Room(Len(v))
    /\ NodeFromFragVec(t, v)
    /\ UNCHANGED scen

F_Cas(t, o) ==
    /\ phase = "free"
    /\ ret[t].op = "node_from_frag_vec"
    /\ o \in everHead \cup {Null}
    /\ Cas(t, "s1", o, ret[t].val)
    /\ UNCHANGED scen

Next ==
    \/ \E t \in Threads : \E v \in Values : F_Push(t, v)
    \/ \E t \in Threads : PushLoad(t)
    \/ \E t \in Threads : PushCas(t)
    \/ \E t \in Threads : F_Pop(t)
    \/ \E t \in Threads : F_PopAll(t)
    \/ \E t \in Threads : PopLoad(t)
    \/ \E t \in Threads : PopNext(t)
    \/ \E t \in Threads : PopCas(t)
    \/ \E t \in Threads : \E o \in Ptr : \E v \in Values : F_Cap(t, o, v)
    \/ \E t \in Threads : CapCas(t)
    \/ \E t \in Threads : CapHead(t)
    \/ \E t \in Threads : \E v \in Vecs(MaxLen) : F_NodeFromFragVec(t, v)
    \/ \E t \in Threads : FragLoop(t)
    \/ \E t \in Threads : \E o \in Ptr : F_Cas(t, o)

Init == Start("free")

Spec == Init /\ [][Next]_vars

\* ------------------------------------------------------- one thread alone
\* Thread 1 runs one of two programs on its own:
\*   s1 = Stack::default(); s1.push(v) ...; then s1.pop() ... / s1.pop_all()
\*   s1 = Stack::from_vec(v); r = node_from_frag_vec(v);
\*   s2 = Stack::from_raw(r)  or  s2 = Stack::default(); s2.cas(null, r);
\*   s1.pop_all(); s2.pop_all()
S_Push(v) ==
    /\ phase \in {"start", "pushing"}
    /\ nalloc < MaxAlloc
    /\ Push(1, "s1", v)
    /\ phase' = "pushing"
    /\ UNCHANGED input

S_Pop ==
    /\ phase \in {"start", "pushing", "drain"}
    /\ ~SawEmpty(1)
    /\ Pop(1, "s1")
    /\ phase' = "drain"
    /\ UNCHANGED input

S_PopAll ==
    /\ phase \in {"start", "pushing", "drain"}
    /\ ~SawEmpty(1)
    /\ PopAll(1, "s1")
    /\ phase' = "drain"
    /\ UNCHANGED input

S_FromVec(v) ==
    /\ phase = "start"
    /\ FromVec(1, "s1", v)
    /\ input' = v
    /\ phase' = "vec"

S_NodeFromFragVec ==
    /\ phase = "vec"
    /\ NodeFromFragVec(1, input)
    /\ phase' = "frag"
    /\ UNCHANGED input

S_FromRaw ==
    /\ phase = "frag"
    /\ FromRaw(1, "s2", ret[1].val)
    /\ phase' = "built"
    /\ UNCHANGED input

S_Cas ==
    /\ phase = "frag"
    /\ Cas(1, "s2", Null, ret[1].val)
    /\ phase' = "built"
    /\ UNCHANGED input

S_PopAllVec ==
    /\ phase = "built"
    /\ PopAll(1, "s1")
    /\ phase' = "popped1"
    /\ UNCHANGED input

S_PopAllRaw ==
    /\ phase = "popped1"
    /\ PopAll(1, "s2")
    /\ phase' = "popped2"
    /\ UNCHANGED input

NextSeq ==
    \/ \E v \in Values : S_Push(v)
    \/ PushLoad(1)
    \/ PushCas(1)
    \/ S_Pop
    \/ S_PopAll
    \/ PopLoad(1)
    \/ PopNext(1)
    \/ PopCas(1)
    \/ \E v \in Vecs(MaxLen) : S_FromVec(v)
    \/ FromVecLoop(1)
    \/ S_NodeFromFragVec
    \/ FragLoop(1)
    \/ S_FromRaw
    \/ S_Cas
    \/ S_PopAllVec
    \/ S_PopAllRaw

InitSeq == Start("start")

SpecSeq == InitSeq /\ [][NextSeq]_vars

\* ------------------------------------------------- a reader beside mutators
\* One thread reads the shared stack: it takes a snapshot iterator and steps it,
\* counts the stack with len, and pops, as it likes.  The other threads push,
\* pop and cap as they like.
Reader == 1

I_Push(t, v) == phase = "iter" /\ t # Reader /\ Room(1) /\ Push(t, "s1", v) /\ UNCHANGED scen

I_Pop(t) == phase = "iter" /\ Pop(t, "s1") /\ UNCHANGED scen

I_Cap(t, o, v) ==
    /\ phase = "iter"
    /\ t # Reader
    /\ Room(1)
    /\ o \in everHead \cup {Null}
    /\ Cap(t, "s1", o, v)
    /\ UNCHANGED scen

I_IterAtHead(t) == phase = "iter" /\ t = Reader /\ IterAtHead(t, "s1") /\ UNCHANGED scen

I_IterNext(t) == phase = "iter" /\ t = Reader /\ IterNext(t) /\ UNCHANGED scen

I_Len(t) == phase = "iter" /\ t = Reader /\ LenHead(t, "s1") /\ UNCHANGED scen

NextIter ==
    \/ \E t \in Threads : \E v \in Values : I_Push(t, v)
    \/ \E t \in Threads : PushLoad(t)
    \/ \E t \in Threads : PushCas(t)
    \/ \E t \in Threads : I_Pop(t)
    \/ \E t \in Threads : PopLoad(t)
    \/ \E t \in Threads : PopNext(t)
    \/ \E t \in Threads : PopCas(t)
    \/ \E t \in Threads : \E o \in Ptr : \E v \in Values : I_Cap(t, o, v)
    \/ \E t \in Threads : CapCas(t)
    \/ \E t \in Threads : CapHead(t)
    \/ \E t \in Threads : I_IterAtHead(t)
    \/ \E t \in Threads : I_IterNext(t)
    \/ \E t \in Threads : I_Len(t)
    \/ \E t \in Threads : LenLoop(t)

InitIter == Start("iter")

SpecIter == InitIter /\ [][NextIter]_vars

\* ------------------------------------------- pushes and pops, scheduled fairly
\* Every thread pushes and pops on the one shared stack as it likes; a thread
\* that is inside push or pop is scheduled again and again until it returns.
L_Push(t, v) == phase = "live" /\ Room(1) /\ Push(t, "s1", v) /\ UNCHANGED scen

L_Pop(t) == phase = "live" /\ Pop(t, "s1") /\ UNCHANGED scen

\* a step of thread t inside push or pop
Step(t) == PushLoad(t) \/ PushCas(t) \/ PopLoad(t) \/ PopNext(t) \/ PopCas(t)

NextLive ==
    \/ \E t \in Threads : \E v \in Values : L_Push(t, v)
    \/ \E t \in Threads : PushLoad(t)
    \/ \E t \in Threads : PushCas(t)
    \/ \E t \in Threads : L_Pop(t)
    \/ \E t \in Threads : PopLoad(t)
    \/ \E t \in Threads : PopNext(t)
    \/ \E t \in Threads : PopCas(t)

InitLive == Start("live")

Fairness == \A t \in Threads : WF_vars(Step(t))

SpecLive == InitLive /\ [][NextLive]_vars /\ Fairness

\* --------------------------------------------------- what the scenario sees
RECURSIVE GotUpTo(_)
GotUpTo(k) == IF k = 0 THEN <<>> ELSE GotUpTo(k - 1) \o got[k]

\* every successful pop of every thread
AllGot == GotUpTo(NumThreads)

GotVals(g) == [i \in 1..Len(g) |-> g[i].v]

\* the values of the nodes allocated so far, in the order of their allocation
PushedVals == [i \in 1..nalloc |-> inner[i]]

\* the last k elements of q
Suffix(q, k) == SubSeq(q, Len(q) - k + 1, Len(q))

\* the pushers were joined, and the drainers have returned, one of them from an
\* empty stack
DrainDone ==
    /\ phase = "drain"
    /\ \A t \in Threads : pc[t] = "idle"
    /\ \E t \in Threads : SawEmpty(t)

\* ------------------------------------------------------------------ claims
\* C1: values pushed one after the other by a thread on its own come back latest
\* first: what has been popped so far is always the front of the reversed push
\* order, pops that go on until the empty indication return all of it, and
\* pop_all returns what was left of it, all of it when nothing was popped before.
C1_StrictLIFO ==
    phase = "drain" =>
        /\ Len(got[1]) <= nalloc
        /\ GotVals(got[1]) = SubSeq(Reverse(PushedVals), 1, Len(got[1]))
        /\ (pc[1] = "idle" /\ SawEmpty(1)) =>
              /\ GotVals(got[1]) = Reverse(PushedVals)
              /\ head["s1"] = Null
        /\ (pc[1] = "idle" /\ ret[1].op = "pop" /\ ret[1].ok) =>
              ret[1].val = Reverse(PushedVals)[Len(got[1])]
        /\ (pc[1] = "idle" /\ ret[1].op = "pop_all") =>
              ret[1].val = Suffix(Reverse(PushedVals), Len(ret[1].val))

\* C1 witness: MaxAlloc values, not all the same, were pushed and pop_all
\* returned all of them.
C1_Witness ==
    /\ phase = "drain"
    /\ pc[1] = "idle"
    /\ ret[1].op = "pop_all"
    /\ Len(ret[1].val) = MaxAlloc
    /\ nalloc = MaxAlloc
    /\ ret[1].val[1] # ret[1].val[MaxAlloc]

\* the step in which the pop of thread t loads head
PopLoads(t) == pc[t] = "pop_load" /\ pc'[t] # "pop_load"

\* C2: a pop that finds head null returns the empty indication to its caller and
\* leaves every head as it was; and no pop panics.
C2_PopOfEmpty ==
    /\ [](\A t \in Threads : pc[t] # "panic")
    /\ [][\A t \in Threads :
            (PopLoads(t) /\ head[self[t]] = Null) =>
                /\ pc'[t] = "idle"
                /\ ret'[t] = IF caller[t] = "pop_all"
                             THEN [op |-> "pop_all", ok |-> TRUE, val |-> vec[t]]
                             ELSE [op |-> "pop", ok |-> FALSE, val |-> NoVal]
                /\ head' = head]_vars

\* C2 witness: one thread popped the last node, and another thread's pop then
\* returned the empty indication from the stack so emptied.
C2_Witness ==
    \E t, u \in Threads :
        /\ t # u
        /\ pc[t] = "idle" /\ ret[t] = [op |-> "pop", ok |-> FALSE, val |-> NoVal]
        /\ pc[u] = "idle" /\ ret[u].op = "pop" /\ ret[u].ok
        /\ head["s1"] = Null
        /\ everHead # {}

\* C3: after concurrent pushes have all returned, a full drain returns the pushed
\* values as a multiset, nothing lost and nothing twice; the nodes one thread
\* pushed come out latest push first; and what pop_all returns is what its pops
\* popped.
C3_PushesAllDrained ==
    DrainDone =>
        /\ BagOf(GotVals(AllGot)) = BagOf(PushedVals)
        /\ Len(AllGot) = nalloc
        /\ \A t \in Threads : \A i, j \in 1..Len(got[t]) :
              (i < j /\ pusher[got[t][i].n] = pusher[got[t][j].n])
                  => got[t][i].n > got[t][j].n
        /\ \A t \in Threads :
              ret[t].op = "pop_all"
                  => ret[t].val = Suffix(GotVals(got[t]), Len(ret[t].val))

\* C3 witness: both threads pushed, their pushes overlapped (a node allocated
\* earlier came out before one allocated later), and the drain is complete.
C3_Witness ==
    /\ DrainDone
    /\ nalloc = MaxAlloc
    /\ \A t \in Threads : \E n \in 1..nalloc : pusher[n] = t
    /\ \E t \in Threads : \E i, j \in 1..Len(got[t]) : i < j /\ got[t][i].n < got[t][j].n
    /\ \E t \in Threads : ret[t].op = "pop_all" /\ Len(ret[t].val) = nalloc

\* C4: under concurrent pops no node is detached twice and no two pops return
\* the same node; when every drainer has seen the stack empty, what they
\* returned together is exactly the set of pushed nodes, each once.
C4_DetachedOnce ==
    /\ \A i, j \in 1..Len(AllGot) : i # j => AllGot[i].n # AllGot[j].n
    /\ \A i \in 1..Len(AllGot) : AllGot[i].v = inner[AllGot[i].n]
    /\ (phase = "drain" /\ \A t \in Threads : pc[t] = "idle" /\ SawEmpty(t))
          => /\ {AllGot[i].n : i \in 1..Len(AllGot)} = 1..nalloc
             /\ Len(AllGot) = nalloc
             /\ BagOf(GotVals(AllGot)) = BagOf(PushedVals)
             /\ head["s1"] = Null

\* C4 witness: two threads drained concurrently, each detached a node, and
\* each went on until it saw the stack empty.
C4_Witness ==
    /\ phase = "drain"
    /\ \A t \in Threads : pc[t] = "idle" /\ SawEmpty(t) /\ Len(got[t]) > 0
    /\ nalloc = MaxAlloc

\* the step in which the cap of thread t does its compare-and-swap
CapSwaps(t) == pc[t] = "cap_cas" /\ pc'[t] # "cap_cas"

\* that step reports success to the caller of cap
CapReportsOk(t) == pc'[t] = "idle" /\ ret'[t].op = "cap" /\ ret'[t].ok

\* the step in which thread t calls cas with the chain it built
CasSwaps(t) == ret[t].op = "node_from_frag_vec" /\ ret'[t].op = "cas"

\* C5: cap reports success exactly when head equals old at its compare-and-swap,
\* and then head is the new node, whose value is v and whose next is old, and
\* that node is what cap returns.
C5_CapSucceedsIffHeadIsOld ==
    [][\A t \in Threads :
          CapSwaps(t) =>
              /\ CapReportsOk(t) <=> head[self[t]] = old[t]
              /\ CapReportsOk(t) =>
                    /\ head'[self[t]] = node[t]
                    /\ next'[node[t]] = old[t]
                    /\ inner'[node[t]] = inner[node[t]]
                    /\ ret'[t].val = node[t]]_vars

\* C6: when the compare-and-swap of cap fails, what cap returns is what head
\* held at that compare-and-swap, which is not old.
C6_CapFailureReturnsHeadAtSwap ==
    [][\A t \in Threads :
          (pc[t] = "cap_head" /\ pc'[t] = "idle" /\ res[t] # old[t]) =>
              /\ ret'[t].val = res[t]
              /\ ret'[t].val # old[t]]_vars

\* C7: cas returns Ok(new) exactly when head was old and new has replaced it,
\* and otherwise returns Err with what head held at the swap.  (The chain given
\* as new is not in any head before the call, so head is new after the call
\* exactly when the swap took place.)
C7_CasOkIffSwapped ==
    [][\A t \in Threads :
          CasSwaps(t) =>
              /\ head[self'[t]] # ret[t].val
              /\ ret'[t].ok <=> head'[self'[t]] = ret[t].val
              /\ ret'[t].ok => ret'[t].val = ret[t].val
              /\ ~ret'[t].ok => ret'[t].val = head[self'[t]]]_vars

\* C8: a cap or cas that reports failure, forced or not, has left every head and
\* every link as they were.
C8_FailureChangesNothing ==
    [][\A t \in Threads :
          /\ (CapSwaps(t) /\ ~CapReportsOk(t)) => (head' = head /\ next' = next)
          /\ (CasSwaps(t) /\ ~ret'[t].ok) => (head' = head /\ next' = next)]_vars

\* C9: from_vec(v) builds a stack whose chain holds v top first, an empty stack
\* for the empty vector, and pop_all on it returns v.
C9_FromVecKeepsOrder ==
    /\ (phase \in {"vec", "frag", "built"} /\ pc[1] = "idle") =>
          /\ ChainVals(head["s1"]) = input
          /\ input = <<>> => head["s1"] = Null
    /\ (phase = "popped1" /\ pc[1] = "idle") =>
          /\ ret[1] = [op |-> "pop_all", ok |-> TRUE, val |-> input]
          /\ head["s1"] = Null

\* C9 witness: pop_all has returned from a stack made from a vector of MaxLen
\* values whose first and last differ.
C9_Witness ==
    /\ phase = "popped1"
    /\ pc[1] = "idle"
    /\ ret[1].op = "pop_all"
    /\ Len(input) = MaxLen
    /\ input[1] # input[MaxLen]

\* C10: node_from_frag_vec(v) returns a null-terminated chain of fresh nodes that
\* holds v top first, null for the empty vector; the stack made of it by
\* from_raw, or by one cas onto a null head, holds what from_vec(v) holds; and
\* pop_all on it returns v.
C10_FragChainAsFromVec ==
    /\ (phase = "frag" /\ pc[1] = "idle") =>
          /\ ret[1].op = "node_from_frag_vec"
          /\ ChainVals(ret[1].val) = input
          /\ input = <<>> => ret[1].val = Null
          /\ ChainSet(ret[1].val) \cap ChainSet(head["s1"]) = {}
          /\ head["s2"] = Null
    /\ (phase \in {"built", "popped1"} /\ pc[1] = "idle") =>
          /\ ChainVals(head["s2"]) = input
          /\ phase = "built" => ChainVals(head["s2"]) = ChainVals(head["s1"])
    /\ (phase = "popped2" /\ pc[1] = "idle") =>
          /\ ret[1] = [op |-> "pop_all", ok |-> TRUE, val |-> input]
          /\ head["s2"] = Null

\* C10 witness: pop_all has returned from the stack made of the chain built from
\* a vector of MaxLen values whose first and last differ.
C10_Witness ==
    /\ phase = "popped2"
    /\ pc[1] = "idle"
    /\ ret[1].op = "pop_all"
    /\ Len(input) = MaxLen
    /\ input[1] # input[MaxLen]

\* ------------------------------------------------- steps the claims speak of
\* the statements of push and of pop
PushPcs == {"push_load", "push_cas"}
PopPcs == {"pop_load", "pop_next", "pop_cas"}

\* the compare-and-swap of the push of thread t succeeds, and push returns
PushSucceeds(t) == pc[t] = "push_cas" /\ pc'[t] \notin PushPcs

\* the compare-and-swap of the push of thread t fails
PushFails(t) == pc[t] = "push_cas" /\ pc'[t] = "push_load"

\* the compare-and-swap of the pop of thread t succeeds, and pop returns Some
PopSucceeds(t) == pc[t] = "pop_cas" /\ (pc'[t] = "idle" \/ vec'[t] # vec[t])

\* the compare-and-swap of the pop of thread t fails
PopFails(t) == pc[t] = "pop_cas" /\ pc'[t] = "pop_load" /\ vec'[t] = vec[t]

\* the pop of thread t returns None from its load of head
PopReturnsNone(t) == PopLoads(t) /\ pc'[t] = "idle"

\* what the pop that has just succeeded returned
Popped(t) == IF caller[t] = "pop_all" THEN vec'[t][Len(vec'[t])] ELSE ret'[t].val

\* a step of iter_at_head by thread t: it panics, or it returns an iterator
IterAtHeadActs(t) ==
    /\ pc[t] = "idle"
    /\ \/ pc'[t] = "iter_at_head_panic"
       \/ ret'[t].op = "iter_at_head" /\ <<ret[t], snap[t], yielded[t]>> #
                                         <<ret'[t], snap'[t], yielded'[t]>>

\* C11: iter_at_head panics exactly when it finds head null, and returns no
\* iterator then; when head is not null it returns that head and an iterator
\* standing at that node; either way it leaves the stack as it was.
C11_IterAtHeadPanicsOnEmpty ==
    /\ [](\A t \in Threads :
            ret[t].op = "iter_at_head" =>
                ret[t].val # Null /\ iterInner[t] = ret[t].val /\ yielded[t] = <<>>)
    /\ [][\A t \in Threads :
            IterAtHeadActs(t) =>
                /\ pc'[t] = "iter_at_head_panic" <=> head[self'[t]] = Null
                /\ pc'[t] = "iter_at_head_panic" => ret'[t].op # "iter_at_head"
                /\ pc'[t] # "iter_at_head_panic" =>
                      /\ ret'[t].val = head[self'[t]]
                      /\ iterInner'[t] = head[self'[t]]
                /\ head' = head /\ next' = next /\ inner' = inner]_vars

\* C11 witness: the reader took an iterator from the stack while it held nodes,
\* yielded from it, and then panicked in iter_at_head on the stack emptied since.
C11_Witness ==
    /\ pc[Reader] = "iter_at_head_panic"
    /\ yielded[Reader] # <<>>
    /\ head["s1"] = Null

\* C12: the iterator yields the nodes of the chain that hung from head when the
\* snapshot was taken, top first, each with its value, and ends after the last of
\* them: nothing pushed since is yielded, nothing popped since is left out.
C12_SnapshotIsYielded ==
    \A t \in Threads :
        /\ Len(yielded[t]) <= Len(snap[t])
        /\ yielded[t] = SubSeq(snap[t], 1, Len(yielded[t]))
        /\ HasIter(t) =>
              iterInner[t] = IF Len(yielded[t]) < Len(snap[t])
                             THEN snap[t][Len(yielded[t]) + 1]
                             ELSE Null
        /\ (ret[t].op = "next" /\ ret[t].ok) =>
              /\ yielded[t] # <<>>
              /\ ret[t].val = inner[yielded[t][Len(yielded[t])]]
        /\ (ret[t].op = "next" /\ ~ret[t].ok) => yielded[t] = snap[t]

\* C12 witness: the iterator has come to its end after yielding two nodes or
\* more, one of which was popped after the snapshot, while head holds a node
\* pushed after the snapshot.
C12_Witness ==
    /\ ret[Reader].op = "next" /\ ~ret[Reader].ok
    /\ Len(yielded[Reader]) >= 2
    /\ \E i \in 1..Len(yielded[Reader]) : yielded[Reader][i] \notin ChainSet(head["s1"])
    /\ \E n \in ChainSet(head["s1"]) : \A i \in 1..Len(snap[Reader]) : snap[Reader][i] # n

\* the nodes a thread holds a pointer to that it may still dereference: the node
\* its iterator stands at and the nodes whose values it has yielded, the node
\* len stands at, the head a push or pop has loaded, the node a pop is detaching
ReaderRefs ==
    UNION {
        (IF HasIter(t)
         THEN {iterInner[t]} \cup {yielded[t][i] : i \in 1..Len(yielded[t])}
         ELSE {})
        \cup (IF pc[t] \in {"len_loop", "push_cas", "pop_next", "pop_cas"} THEN {hd[t]} ELSE {})
        \cup (IF pc[t] = "pop_cas" THEN {node[t]} ELSE {})
        : t \in Threads} \ {Null}

\* C13: no node that a reader may still dereference, and no node that hangs
\* from head, has been destroyed.
C13_NoUseAfterFree ==
    /\ ReaderRefs \cap freed = {}
    /\ ChainSet(head["s1"]) \cap freed = {}

\* C13 witness: the reader's iterator has yielded a node and stands at a node
\* that a pop has detached since the snapshot, which the reader will read next;
\* and a node has been destroyed (the node of a cap that failed).
C13_Witness ==
    /\ HasIter(Reader)
    /\ yielded[Reader] # <<>>
    /\ iterInner[Reader] # Null
    /\ iterInner[Reader] \notin ChainSet(head["s1"])
    /\ freed # {}

\* what push and pop do to the sequential stack that the successful swaps of
\* head make: a push puts its node on top of it, a pop that succeeds returns the
\* value that was on top of it at its compare-and-swap and takes it off, and a
\* pop returns None only when it was empty at the pop's load of head
PushPopLinearized ==
    [][\A t \in Threads :
          /\ PushSucceeds(t) =>
                /\ head'[self[t]] = node[t]
                /\ next'[node[t]] = head[self[t]]
                /\ abs'[self[t]] = <<node[t]>> \o abs[self[t]]
          /\ PushFails(t) => abs' = abs
          /\ PopSucceeds(t) =>
                /\ abs[self[t]] # <<>>
                /\ Popped(t) = inner[Head(abs[self[t]])]
                /\ abs'[self[t]] = Tail(abs[self[t]])
          /\ PopFails(t) => abs' = abs
          /\ PopReturnsNone(t) => abs[self[t]] = <<>> /\ abs' = abs]_vars

\* the chain from head is that sequential stack at every instant
ChainIsAbs == \A s \in Stacks : abs[s] = Chain(head[s])

\* what cap and cas report of it: Ok exactly when their swap has changed it, cap
\* by putting its node on top of it and cas by putting its chain in its place,
\* and Err exactly when it is as it was
CapCasLinearized ==
    [][\A t \in Threads :
          /\ CapSwaps(t) =>
                /\ CapReportsOk(t) => abs'[self[t]] = <<node[t]>> \o abs[self[t]]
                /\ ~CapReportsOk(t) => abs' = abs
          /\ CasSwaps(t) =>
                /\ ret'[t].ok => abs'[self'[t]] = Chain(ret[t].val)
                /\ ~ret'[t].ok => abs' = abs]_vars

\* C14: push, pop, cap and cas are linearizable: the successful swaps of head,
\* one after the other, make a sequential stack, the chain from head is that
\* stack at every instant, and every operation returns what it would return if
\* it ran alone on that stack at its swap (for a pop that finds the stack
\* empty, at its load of head).
C14_Linearizable ==
    /\ []ChainIsAbs
    /\ PushPopLinearized
    /\ CapCasLinearized

\* C15: a pop that succeeds hands the node it detached to the reclamation
\* substrate, once; a pop whose compare-and-swap failed retires nothing and
\* destroys nothing.
C15_PopRetiresDetached ==
    [][\A t \in Threads :
          /\ PopSucceeds(t) => node[t] \notin retired /\ retired' = retired \cup {node[t]}
          /\ PopFails(t) => retired' = retired /\ freed' = freed]_vars

\* what the source does in place of it: no node is ever handed to the
\* reclamation substrate, and a pop whose compare-and-swap failed destroys nothing
NothingIsRetired == retired = {}

FailedPopKeepsNode ==
    [][\A t \in Threads : PopFails(t) => retired' = retired /\ freed' = freed]_vars

\* C16: the next of a node that has been reachable from a head is never
\* written again.
C16_PublishedNextIsFrozen ==
    [][\A n \in everReach : next'[n] = next[n]]_vars

\* C16 witness: a push whose compare-and-swap failed is about to store into the
\* next of its node again, that node having never been reachable, while the
\* stack holds a node and another node has been detached from it.
C16_Witness ==
    \E t \in Threads :
        /\ pc[t] = "push_load"
        /\ next[node[t]] # Null
        /\ node[t] \notin everReach
        /\ head["s1"] # Null
        /\ everReach \ ChainSet(head["s1"]) # {}

\* C17: the chain from head ends at null after finitely many nodes, all of them
\* allocated and none of them twice; and head is null exactly when the stack
\* holds nothing.
C17_ChainIsAcyclic ==
    \A s \in Stacks :
        /\ Len(Chain(head[s])) <= nalloc
        /\ \A i, j \in 1..Len(Chain(head[s])) : i # j => Chain(head[s])[i] # Chain(head[s])[j]
        /\ ChainSet(head[s]) \subseteq 1..nalloc
        /\ head[s] = Null <=> abs[s] = <<>>

\* C17 witness: the stack holds two nodes, the upper one put there by cap, and a
\* node has been popped from it.
C17_Witness ==
    /\ Len(Chain(head["s1"])) = 2
    /\ \E t \in Threads : pc[t] = "idle" /\ ret[t].op = "cap" /\ ret[t].ok
                          /\ ret[t].val = head["s1"]
    /\ everHead \ ChainSet(head["s1"]) # {}

\* some thread is inside push or pop
Inside == \E t \in Threads : pc[t] \in PushPcs \cup PopPcs

\* a push or a pop returns
Completes == \E t \in Threads : pc[t] \in PushPcs \cup PopPcs /\ pc'[t] = "idle"

\* C18: the compare-and-swap of a push or pop fails only when another thread has
\* swapped head since this thread loaded it; and under fair scheduling pushes and
\* pops go on returning for as long as threads go on being inside them.
C18_LockFree ==
    /\ [][\A t \in Threads : (PushFails(t) \/ PopFails(t)) => stale[t]]_vars
    /\ (<>[]~Inside) \/ ([]<><<Completes>>_vars)

\* C18 witness: a pop has returned a value after a compare-and-swap of it had
\* failed because the other thread swapped head first.
C18_Witness ==
    \E t \in Threads :
        pc[t] = "idle" /\ ret[t].op = "pop" /\ ret[t].ok /\ retried[t]

\* C19: push returns only from the compare-and-swap that installs its node as
\* head, a node no head has reached before, and keeps that node when a
\* compare-and-swap fails; pop returns only from a compare-and-swap that
\* detaches the node it read or from a load that finds head null; and every
\* push and pop that has been entered returns (the threads enter boundedly many
\* pushes here, so the other threads do stop swapping head in every behaviour).
C19_NeverGivesUp ==
    /\ [][\A t \in Threads :
            /\ (pc[t] \in PushPcs /\ pc'[t] \notin PushPcs) =>
                  /\ pc[t] = "push_cas"
                  /\ head[self[t]] = hd[t]
                  /\ head'[self[t]] = node[t]
                  /\ node[t] \notin everReach
                  /\ ret'[t] = [op |-> "push", ok |-> TRUE, val |-> node[t]]
            /\ PushFails(t) => node'[t] = node[t] /\ head' = head
            /\ (pc[t] \in PopPcs /\ pc'[t] \notin PopPcs) =>
                  \/ /\ pc[t] = "pop_cas"
                     /\ head[self[t]] = node[t]
                     /\ head'[self[t]] = next[node[t]]
                     /\ ret'[t] = [op |-> "pop", ok |-> TRUE, val |-> inner[node[t]]]
                  \/ /\ pc[t] = "pop_load"
                     /\ head[self[t]] = Null
                     /\ ret'[t] = [op |-> "pop", ok |-> FALSE, val |-> NoVal]
            /\ PopFails(t) => head' = head]_vars
    /\ \A t \in Threads : (pc[t] \in PushPcs \cup PopPcs) ~> (pc[t] = "idle")

\* C19 witness: a push has returned with its node installed as head after a
\* compare-and-swap of it had failed.
C19_Witness ==
    \E t \in Threads :
        /\ pc[t] = "idle" /\ ret[t].op = "push" /\ retried[t]
        /\ head["s1"] = ret[t].val

\* C20: the next that a pop installs when its compare-and-swap succeeds is the
\* next of the node it detaches as it is at that instant, and that node is the
\* head: the chain after the swap is the chain before it less its first node.
C20_PopInstallsCurrentNext ==
    [][\A t \in Threads :
          PopSucceeds(t) =>
              /\ head[self[t]] = node[t]
              /\ nxt[t] = next[node[t]]
              /\ head'[self[t]] = next[node[t]]
              /\ Chain(head[self[t]]) = <<node[t]>> \o (Chain(head[self[t]]))']_vars

\* C20 witness: a pop has succeeded although another thread swapped head between
\* the pop's load of head and its compare-and-swap: head had gone from the node
\* the pop read and come back to it.
C20_Witness ==
    \E t \in Threads :
        /\ pc[t] = "idle" /\ ret[t].op = "pop" /\ ret[t].ok
        /\ stale[t]

====
